---------------------------- MODULE Spec2Model ----------------------------
(***************************************************************************)
(* Model of the HITL webhook of csUsecase (src/hitl_webhook.py): the       *)
(* pending-approval store kept in one JSON file, the Flask handlers that   *)
(* upsert into it, the consumer API that reads and removes, and the        *)
(* start-once lifecycle of the listener thread.                            *)
(*                                                                         *)
(* Strings are sequences of one-character strings, so that the regular    *)
(* expression search and Python's truthiness are computed, not assumed.    *)
(* An optional value (Python None or a value) is <<>> or <<v>>.            *)
(***************************************************************************)
EXTENDS Integers, Sequences, FiniteSets, TLC

(***************************************************************************)
(* Bounds of the model.                                                    *)
(***************************************************************************)
MaxOps == 3
MaxSeqOps == 4
MaxInitLen == 1
MaxStarts == 4
MaxThreads == 3
MaxFaultOps == 2
MaxJsonLen == 2

(***************************************************************************)
(* Strings.                                                                *)
(***************************************************************************)
None == <<>>
Some(v) == <<v>>

UpperCase == <<"A","B","C","D","E","F","G","H","I","J","K","L","M",
               "N","O","P","Q","R","S","T","U","V","W","X","Y","Z">>
LowerCase == <<"a","b","c","d","e","f","g","h","i","j","k","l","m",
               "n","o","p","q","r","s","t","u","v","w","x","y","z">>

LowerChar(c) ==
    IF \E i \in 1..26 : UpperCase[i] = c
    THEN LowerCase[CHOOSE i \in 1..26 : UpperCase[i] = c]
    ELSE c

Lower(s) == [i \in 1..Len(s) |-> LowerChar(s[i])]

\* re.search of a literal pattern: some window of s equals pat
Contains(s, pat) ==
    \E i \in 1..(Len(s) - Len(pat) + 1) : SubSeq(s, i, i + Len(pat) - 1) = pat

\* _REVIEW_TASK_PATTERN = re.compile(r"review", re.IGNORECASE)
_REVIEW_TASK_PATTERN == <<"r","e","v","i","e","w">>

SearchIgnoreCase(s) == Contains(Lower(s), _REVIEW_TASK_PATTERN)

\* the "request_review" default of task_id
DefaultTaskId == <<"r","e","q","u","e","s","t","_","r","e","v","i","e","w">>

\* "(No output in task webhook)"
NoOutputPlaceholder ==
    <<"(","N","o"," ","o","u","t","p","u","t"," ","i","n"," ",
      "t","a","s","k"," ","w","e","b","h","o","o","k",")">>

(***************************************************************************)
(* Payloads.  A payload is the dict of the request: each field is None     *)
(* (absent or null) or a string; output and summary may also be a dict.    *)
(***************************************************************************)
Body(kick, exec, name, tid, out, summ) ==
    [kickoff_id |-> kick, execution_id |-> exec, name |-> name,
     task_id |-> tid, output |-> out, summary |-> summ]

EmptyBody == Body(None, None, None, None, None, None)

\* a field holding a dict: its members in order, each a key and a JSON value
Dict(members) == <<"dict", members>>

\* isinstance(value, dict)
IsDict(o) == Len(o) = 2

\* Python truthiness of a field: None, "" and {} are falsy
Truthy(o) ==
    CASE Len(o) = 0 -> FALSE
      [] Len(o) = 1 -> o[1] # <<>>
      [] OTHER -> o[2] # <<>>

\* Python's  a or b
Or2(a, b) == IF Truthy(a) THEN a ELSE b

\* a predicate that looks for the marker in both fields
_is_review_task_any_field(body) ==
    \/ Truthy(body.name) /\ SearchIgnoreCase(body.name[1])
    \/ Truthy(body.task_id) /\ SearchIgnoreCase(body.task_id[1])

\* a predicate that falls back on the default of the extraction
_is_review_task_with_default(body) ==
    LET name == Or2(Or2(body.name, body.task_id), Some(DefaultTaskId))
    IN  SearchIgnoreCase(name[1])

_is_review_task(body) ==
    LET name == Or2(Or2(body.name, body.task_id), Some(<<>>))
    IN  SearchIgnoreCase(name[1])

Record(e, t, c, raw) ==
    [execution_id |-> e, task_id |-> t, content |-> c, raw |-> raw]

Key(rec) == <<rec.execution_id, rec.task_id>>

(***************************************************************************)
(* The store file.                                                         *)
(***************************************************************************)
FileAbsent == [kind |-> "absent", data |-> <<>>]
\* just opened with "w": exists and holds nothing
FileEmpty == [kind |-> "empty", data |-> <<>>]
\* holds bytes json.load rejects
FileMalformed == [kind |-> "malformed", data |-> <<>>]
FileList(d) == [kind |-> "list", data |-> d]
\* holds the start of a dump still being written
FilePartial == [kind |-> "partial", data |-> <<>>]
\* holds the JSON text {} or "": a value whose iteration yields nothing
FileEmptyObject == [kind |-> "emptyobject", data |-> <<>>]
\* holds a JSON number, true, false or null: a value that cannot be iterated
FileScalar == [kind |-> "scalar", data |-> <<>>]
\* holds [1], {"a": 1} or "abc": iteration yields values that have no .get
FileNonRecords == [kind |-> "nonrecords", data |-> <<>>]
\* holds bytes the text decoding of open(..., "r") rejects
FileUndecodable == [kind |-> "undecodable", data |-> <<>>]

\* what open and json.load raise inside the try of _read_store
load_raises(f) ==
    CASE f.kind \in {"empty", "malformed", "partial"} -> "JSONDecodeError"
      [] f.kind = "undecodable" -> "UnicodeDecodeError"
      [] OTHER -> "none"

\* a try with no except clause
CatchesNothing == {}

\* except (json.JSONDecodeError, OSError)
ReadCaught == {"JSONDecodeError", "OSError"}

\* the exception that leaves _read_store
_read_store_raises(f) ==
    IF load_raises(f) \in ReadCaught THEN "none" ELSE load_raises(f)

\* a filter that takes whatever it is given for an empty list
filter_never_raises(f) == "none"

\* [a for a in data if not (a.get(...) == ... and a.get(...) == ...)] over
\* the value _read_store returned
filter_raises(f) ==
    CASE f.kind = "scalar" -> "TypeError"
      [] f.kind = "nonrecords" -> "AttributeError"
      [] OTHER -> "none"

_read_store(f) == IF f.kind = "list" THEN f.data ELSE <<>>

get_pending_approvals(f) == _read_store(f)

\* a file opened without truncation keeps what it holds
OpenNoTruncate(f) == f

\* open(_HITL_STORE, "w")
OpenW(f) == FileEmpty

\* json.dump and close: the bytes go to offset 0 of whatever the file holds
\* by then.  Over a file nobody wrote to since this writer's open they are
\* the whole content.  Over another writer's bytes the result is this
\* writer's content when it is at least as long as theirs, else its content
\* followed by their tail, which json.load rejects ("Extra data").  "[]" is
\* the shortest content there is; two different non-empty lists may be of
\* either length.
\* a write that adds to what the file holds
DumpOutcomesAppend(f, d) == {FileList(_read_store(f) \o d)}

DumpOutcomes(f, d) ==
    CASE f.kind = "empty" -> {FileList(d)}
      [] f.kind = "list" /\ (f.data = d \/ f.data = <<>>) -> {FileList(d)}
      [] f.kind = "list" /\ f.data # <<>> /\ d = <<>> -> {FileMalformed}
      [] OTHER -> {FileList(d), FileMalformed}

\* a filter that drops the records matching either argument
WithoutKeyOr(data, e, t) ==
    LET keep(a) == ~(a.execution_id = e \/ a.task_id = t)
    IN  SelectSeq(data, keep)

\* [a for a in data if not (a.execution_id == e and a.task_id == t)]
WithoutKey(data, e, t) ==
    LET keep(a) == ~(a.execution_id = e /\ a.task_id = t)
    IN  SelectSeq(data, keep)

\* an upsert that only appends
UpsertNoFilter(data, rec) == Append(data, rec)

\* an upsert that updates the content of the record it finds
UpsertMerge(data, rec) ==
    IF \E i \in 1..Len(data) : Key(data[i]) = Key(rec)
    THEN [i \in 1..Len(data) |->
            IF Key(data[i]) = Key(rec)
            THEN [data[i] EXCEPT !.content = rec.content]
            ELSE data[i]]
    ELSE Append(data, rec)

\* lines 99-100 of task(): drop the record of the same key, append the new
Upsert(data, rec) ==
    Append(WithoutKey(data, rec.execution_id, rec.task_id), rec)

(***************************************************************************)
(* The text of the store file: json.dump(data, f, indent=2) and            *)
(* json.load(f) over JSON values.  A value is a string, null, an object    *)
(* (its members in order) or a list, tagged with what it is.               *)
(***************************************************************************)
JString(s) == [tag |-> "str", v |-> s]
JNull == [tag |-> "null", v |-> <<>>]
JObject(members) == [tag |-> "obj", v |-> members]
JList(items) == [tag |-> "list", v |-> items]

ExecutionIdKey == <<"e","x","e","c","u","t","i","o","n","_","i","d">>
TaskIdKey == <<"t","a","s","k","_","i","d">>
ContentKey == <<"c","o","n","t","e","n","t">>
RawKey == <<"r","a","w">>
KickoffIdKey == <<"k","i","c","k","o","f","f","_","i","d">>
NameKey == <<"n","a","m","e">>
OutputKey == <<"o","u","t","p","u","t">>
SummaryKey == <<"s","u","m","m","a","r","y">>

\* the dict of a payload and the dict of a record, as JSON values
BodyValue(b) ==
    LET opt(o) == IF o = None THEN JNull
                  ELSE IF IsDict(o) THEN JObject(o[2])
                  ELSE JString(o[1])
    IN  JObject(<< <<KickoffIdKey, opt(b.kickoff_id)>>,
                   <<ExecutionIdKey, opt(b.execution_id)>>,
                   <<NameKey, opt(b.name)>>,
                   <<TaskIdKey, opt(b.task_id)>>,
                   <<OutputKey, opt(b.output)>>,
                   <<SummaryKey, opt(b.summary)>> >>)

RecordValue(r) ==
    JObject(<< <<ExecutionIdKey, JString(r.execution_id)>>,
               <<TaskIdKey, JString(r.task_id)>>,
               <<ContentKey, JString(r.content)>>,
               <<RawKey, BodyValue(r.raw)>> >>)

ListValue(data) == JList([i \in 1..Len(data) |-> RecordValue(data[i])])

\* a string written between its quotes as it is
NoEscape(s) == s

\* the escapes of a JSON string: the quote, the backslash and the newline
RECURSIVE EscapeChars(_)
EscapeChars(s) ==
    IF s = <<>> THEN <<>>
    ELSE (CASE Head(s) = "\"" -> <<"\\", "\"">>
            [] Head(s) = "\\" -> <<"\\", "\\">>
            [] Head(s) = "\n" -> <<"\\", "n">>
            [] OTHER -> <<Head(s)>>) \o EscapeChars(Tail(s))

json_string(s) == <<"\"">> \o EscapeChars(s) \o <<"\"">>

\* indent=2: a newline and two spaces for each level
NewlineIndent(level) == <<"\n">> \o [i \in 1..(2 * level) |-> " "]

RECURSIVE JoinItems(_, _)
JoinItems(texts, level) ==
    IF Len(texts) = 1 THEN texts[1]
    ELSE texts[1] \o <<",">> \o NewlineIndent(level) \o JoinItems(Tail(texts), level)

\* json.dumps(value, indent=2) at a nesting level
RECURSIVE json_dumps(_, _)
json_dumps(value, level) ==
    CASE value.tag = "str" -> json_string(value.v)
      [] value.tag = "null" -> <<"n", "u", "l", "l">>
      [] value.tag = "list" ->
            IF Len(value.v) = 0 THEN <<"[", "]">>
            ELSE <<"[">> \o NewlineIndent(level + 1)
                 \o JoinItems([i \in 1..Len(value.v) |->
                                  json_dumps(value.v[i], level + 1)], level + 1)
                 \o NewlineIndent(level) \o <<"]">>
      [] value.tag = "obj" ->
            IF Len(value.v) = 0 THEN <<"{", "}">>
            ELSE <<"{">> \o NewlineIndent(level + 1)
                 \o JoinItems([i \in 1..Len(value.v) |->
                                  json_string(value.v[i][1]) \o <<":", " ">>
                                  \o json_dumps(value.v[i][2], level + 1)], level + 1)
                 \o NewlineIndent(level) \o <<"}">>

\* the decoder: a result is a value and the position after it, or a failure
Parsed(value, pos) == [ok |-> TRUE, val |-> value, pos |-> pos]
ParseFails == [ok |-> FALSE, val |-> JNull, pos |-> 0]

IsWhitespace(c) == c \in {" ", "\n", "\t", "\r"}

RECURSIVE SkipWhitespace(_, _)
SkipWhitespace(t, i) ==
    IF i <= Len(t) /\ IsWhitespace(t[i]) THEN SkipWhitespace(t, i + 1) ELSE i

\* the characters of a string up to its closing quote, escapes undone
RECURSIVE ScanString(_, _, _)
ScanString(t, i, acc) ==
    IF i > Len(t) THEN ParseFails
    ELSE IF t[i] = "\"" THEN Parsed(JString(acc), i + 1)
    ELSE IF t[i] = "\n" THEN ParseFails
    ELSE IF t[i] # "\\" THEN ScanString(t, i + 1, Append(acc, t[i]))
    ELSE IF i + 1 > Len(t) THEN ParseFails
    ELSE CASE t[i + 1] = "\"" -> ScanString(t, i + 2, Append(acc, "\""))
           [] t[i + 1] = "\\" -> ScanString(t, i + 2, Append(acc, "\\"))
           [] t[i + 1] = "n" -> ScanString(t, i + 2, Append(acc, "\n"))
           [] OTHER -> ParseFails

RECURSIVE ParseValue(_, _)
RECURSIVE ParseMembers(_, _, _)
RECURSIVE ParseItems(_, _, _)

\* the members of an object from the quote of a key on
ParseMembers(t, i, acc) ==
    IF i > Len(t) \/ t[i] # "\"" THEN ParseFails
    ELSE LET k == ScanString(t, i + 1, <<>>)
         IN  IF ~k.ok THEN ParseFails
             ELSE LET c == SkipWhitespace(t, k.pos)
                  IN  IF c > Len(t) \/ t[c] # ":" THEN ParseFails
                      ELSE LET m == ParseValue(t, c + 1)
                           IN  IF ~m.ok THEN ParseFails
                               ELSE LET e == SkipWhitespace(t, m.pos)
                                        acc2 == Append(acc, <<k.val.v, m.val>>)
                                    IN  IF e > Len(t) THEN ParseFails
                                        ELSE IF t[e] = "}" THEN Parsed(JObject(acc2), e + 1)
                                        ELSE IF t[e] = ","
                                             THEN ParseMembers(t, SkipWhitespace(t, e + 1), acc2)
                                        ELSE ParseFails

\* the items of a list from the first character of an item on
ParseItems(t, i, acc) ==
    LET m == ParseValue(t, i)
    IN  IF ~m.ok THEN ParseFails
        ELSE LET e == SkipWhitespace(t, m.pos)
                 acc2 == Append(acc, m.val)
             IN  IF e > Len(t) THEN ParseFails
                 ELSE IF t[e] = "]" THEN Parsed(JList(acc2), e + 1)
                 ELSE IF t[e] = "," THEN ParseItems(t, e + 1, acc2)
                 ELSE ParseFails

ParseValue(t, i0) ==
    LET i == SkipWhitespace(t, i0)
    IN  IF i > Len(t) THEN ParseFails
        ELSE CASE t[i] = "\"" -> ScanString(t, i + 1, <<>>)
               [] t[i] = "n" ->
                    IF i + 3 <= Len(t) /\ SubSeq(t, i, i + 3) = <<"n", "u", "l", "l">>
                    THEN Parsed(JNull, i + 4) ELSE ParseFails
               [] t[i] = "{" ->
                    LET j == SkipWhitespace(t, i + 1)
                    IN  IF j <= Len(t) /\ t[j] = "}" THEN Parsed(JObject(<<>>), j + 1)
                        ELSE ParseMembers(t, j, <<>>)
               [] t[i] = "[" ->
                    LET j == SkipWhitespace(t, i + 1)
                    IN  IF j <= Len(t) /\ t[j] = "]" THEN Parsed(JList(<<>>), j + 1)
                        ELSE ParseItems(t, j, <<>>)
               [] OTHER -> ParseFails

\* json.load: the value of the whole text, or JSONDecodeError
json_loads(t) ==
    LET r == ParseValue(t, 1)
    IN  IF r.ok /\ SkipWhitespace(t, r.pos) > Len(t) THEN r ELSE ParseFails

\* the store file as its text
TextAbsent == [exists |-> FALSE, text |-> <<>>]
TextFile(t) == [exists |-> TRUE, text |-> t]

\* _read_store over the text: [] when the file is absent or json.load raises
read_all(f) ==
    IF f.exists /\ json_loads(f.text).ok THEN json_loads(f.text).val ELSE JList(<<>>)

\* _write_store over the text
write_all(value) == TextFile(json_dumps(value, 0))

\* the content taken from summary before output
content_summary_first(body) ==
    LET content == Or2(body.summary, body.output)
        text == IF IsDict(content)
                THEN Some(json_dumps(JObject(content[2]), 0))
                ELSE content
    IN  IF ~Truthy(text) THEN NoOutputPlaceholder ELSE text[1]

\* lines 67-71: output or summary; a dict becomes its JSON text; what is
\* then falsy becomes the placeholder
content_of(body) ==
    LET content == Or2(body.output, body.summary)
        text == IF IsDict(content)
                THEN Some(json_dumps(JObject(content[2]), 0))
                ELSE content
    IN  IF ~Truthy(text) THEN NoOutputPlaceholder ELSE text[1]

\* the extraction without its  if not execution_id: return None
_extract_no_id_check(body) ==
    LET execution_id == Or2(body.kickoff_id, body.execution_id)
        task_id == Or2(Or2(body.name, body.task_id), Some(DefaultTaskId))
    IN  Some(Record(IF execution_id = None THEN <<>> ELSE execution_id[1],
                    task_id[1], content_of(body), body))

_extract_from_task_payload(body) ==
    LET execution_id == Or2(body.kickoff_id, body.execution_id)
        task_id == Or2(Or2(body.name, body.task_id), Some(DefaultTaskId))
    IN  IF ~Truthy(execution_id)
        THEN None
        ELSE Some(Record(execution_id[1], task_id[1], content_of(body), body))

(***************************************************************************)
(* Requests.  A request carries what request.get_json(force, silent)       *)
(* makes of its body: a JSON object, nothing (absent or malformed), a      *)
(* falsy JSON value (null, 0, "", [], false) or a truthy JSON value that   *)
(* is no object ([1], "x", 7).                                             *)
(***************************************************************************)
K1 == <<"k","1">>
K2 == <<"k","2">>
RequestReview == DefaultTaskId
ReViEw == <<"R","e","V","i","E","w">>
SendReply == <<"s","e","n","d","_","r","e","p","l","y">>
TextA == <<"A">>
TextB == <<"B">>

Request(kind, obj) == [kind |-> kind, obj |-> obj]

\* payloads that end in the store: two for one key, one for another key
\* that reaches its fields through the fallbacks
StoreBodies ==
    { Body(Some(K1), None, Some(RequestReview), None, Some(TextA), None),
      Body(Some(K1), None, Some(RequestReview), None, Some(TextB), None),
      Body(Some(<<>>), Some(K2), None, Some(RequestReview), None, Some(TextA)) }

\* review payloads with no execution id
NoIdBodies ==
    { Body(Some(<<>>), None, None, Some(ReViEw), Some(TextA), None) }

\* payloads the review predicate rejects
NonReviewBodies ==
    { Body(Some(K1), None, Some(SendReply), Some(RequestReview), Some(TextA), None),
      EmptyBody }

TaskRequests ==
    { Request("object", b) : b \in StoreBodies \cup NoIdBodies \cup NonReviewBodies }
    \cup { Request("malformed", EmptyBody), Request("falsy", EmptyBody),
           Request("nonobject", EmptyBody) }

\* step(), crew() and health() never look at the body
OtherRequests ==
    { Request("object", Body(Some(K1), None, Some(RequestReview), None, Some(TextA), None)),
      Request("nonobject", EmptyBody) }

\* body = request.get_json(force=True, silent=True) or {}
get_json_or_empty(req) == IF req.kind = "object" THEN req.obj ELSE EmptyBody

\* body.get exists only on a dict
HasGet(req) == req.kind # "nonobject"

Response(status, ok, message) == [status |-> status, ok |-> ok, message |-> message]
NoResponse == Response(0, None, "")
RespIgnored == Response(200, Some(TRUE), "Task received (not a review task, ignored)")
RespStored == Response(200, Some(TRUE), "Review task stored for approval")
RespMissing == Response(400, Some(FALSE), "Missing kickoff_id")
RespError == Response(500, Some(FALSE), "exception")
RespAck == Response(200, Some(TRUE), "")
RespHealth == Response(200, None, "status ok")

Endpoints == { <<"POST", "/task">>, <<"POST", "/step">>,
               <<"POST", "/crew">>, <<"GET", "/health">> }

\* /step bound to the view of /task
RouteStepToTask(ep) ==
    CASE ep = <<"POST", "/task">> -> "task"
      [] ep = <<"POST", "/step">> -> "task"
      [] ep = <<"POST", "/crew">> -> "crew"
      [] ep = <<"GET", "/health">> -> "health"

\* the @app.route table of _run_server
Route(ep) ==
    CASE ep = <<"POST", "/task">> -> "task"
      [] ep = <<"POST", "/step">> -> "step"
      [] ep = <<"POST", "/crew">> -> "crew"
      [] ep = <<"GET", "/health">> -> "health"

\* task() up to its first access to the store: "store" when it goes on to
\* the read-modify-write, else the response it returns at once
task_before_store(req) ==
    IF ~HasGet(req) THEN "error"
    ELSE LET body == get_json_or_empty(req)
         IN  IF ~_is_review_task(body) THEN "ignored"
             ELSE IF _extract_from_task_payload(body) = None THEN "missing"
             ELSE "store"

Extracted(req) == _extract_from_task_payload(get_json_or_empty(req))[1]

\* the response of a handler that returns without touching the store
ImmediateResponse(ep, req) ==
    CASE Route(ep) = "task" ->
            (CASE task_before_store(req) = "error" -> RespError
               [] task_before_store(req) = "ignored" -> RespIgnored
               [] task_before_store(req) = "missing" -> RespMissing
               [] OTHER -> NoResponse)
      [] Route(ep) \in {"step", "crew"} -> RespAck
      [] Route(ep) = "health" -> RespHealth

GoesToStore(ep, req) == Route(ep) = "task" /\ task_before_store(req) = "store"

TaskEp == <<"POST", "/task">>
HealthEp == <<"GET", "/health">>

\* the requests task() takes to the store
StoringRequests == { req \in TaskRequests : GoesToStore(TaskEp, req) }

(***************************************************************************)
(* State.                                                                  *)
(***************************************************************************)
\* the request threads that can run at the same time
Handlers == {1, 2}

Deliveries ==
    { <<ep, req>> \in Endpoints \X (TaskRequests \cup OtherRequests) :
        IF ep = <<"POST", "/task">> THEN req \in TaskRequests ELSE req \in OtherRequests }

AllRecords == { _extract_from_task_payload(b)[1] : b \in StoreBodies }
ExecIds == {K1, K2}
TaskIds == {RequestReview, ReViEw}
KeyUniverse == ExecIds \X TaskIds

VARIABLES
    file,       \* the store file _HITL_STORE
    hpc,        \* request thread: "idle", "read", "open", "dump", "done"
    hreq,       \* request thread: the request it takes to the store
    hdata,      \* request thread: the local  data  of task()
    hresp,      \* request thread: the response it returned
    cpc,        \* consumer process: "idle", "open", "dump", "done"
    ckey,       \* consumer process: the arguments of remove_approval
    cdata,      \* consumer process: the local  data  of remove_approval
    last,       \* history: per key, the outcome of the last completed
                \* operation on it (what an atomic store would hold)
    nOps,       \* deliveries and removals so far
    prev        \* history, one operation at a time only: the file as the
                \* last operation found it

VARIABLES
    serverThread,   \* _SERVER_THREAD: 0 for None, else a thread
    thr,            \* per thread: "none", "unstarted", "alive" (started, not
                    \* yet bound), "listening", "exited"
    tport,          \* per thread: the port of its _run_server
    otherBound,     \* the ports other processes hold
    sres,           \* per caller of start_webhook_server: what its last call
                    \* returned ("none" before any call)
    sstarted,       \* per caller: the thread its last call started, 0 for none
    nStart          \* calls of start_webhook_server so far

VARIABLES
    jfile,      \* the store file as its text
    jwritten,   \* the value the last _write_store was given, if any
    jread       \* what _read_store returned since the last write, if anything

VARIABLES
    pbody,      \* the payload given to the classifier and to the extraction
    pclass,     \* what _is_review_task returned for it, if called
    pext        \* what _extract_from_task_payload returned for it, if called

VARIABLES
    rres        \* the consumer's last get_pending_approvals(): how it ended,
                \* the file it met and the value it returned

VARIABLES
    spc,        \* per caller of start_webhook_server, its steps interleaved:
                \* "idle", "checked" (past line 127), "assigned" (past 131)
    sport       \* per caller: its local  port  after line 129

VARIABLES
    fpc,        \* the flow run: the event its listeners wait for next
    fstate,     \* self.state of the flow, a SupportState
    fresult,    \* the text the method that finished last returned
    fsteps,     \* history: the methods run so far, in order
    ffeedback,  \* history: the outcome of the human's feedback, if given
    fsent       \* history: the replies handed to gmail/send_email

storeVars == <<file, hpc, hreq, hdata, hresp, cpc, ckey, cdata, last, nOps, prev>>

lifeVars == <<serverThread, thr, tport, otherBound, sres, sstarted, nStart>>

jsonVars == <<jfile, jwritten, jread>>

pureVars == <<pbody, pclass, pext>>

readVars == <<rres>>

startVars == <<spc, sport>>

flowVars == <<fpc, fstate, fresult, fsteps, ffeedback, fsent>>

auxVars == <<jsonVars, pureVars, readVars, startVars, flowVars>>

\* what the actions on the text of the file leave alone
jsonRest == <<pureVars, readVars, startVars, flowVars>>

\* what the classifier and the extraction leave alone
pureRest == <<jsonVars, readVars, startVars, flowVars>>

\* what the reader leaves alone
readRest == <<jsonVars, pureVars, startVars, flowVars>>

\* what the steps of start_webhook_server leave alone
startRest == <<jsonVars, pureVars, readVars, flowVars>>

\* what the steps of the support email flow leave alone
flowRest == <<jsonVars, pureVars, readVars, startVars>>

vars == <<file, hpc, hreq, hdata, hresp, cpc, ckey, cdata, last, nOps, prev,
          serverThread, thr, tport, otherBound, sres, sstarted, nStart, auxVars>>

(***************************************************************************)
(* The listener's lifecycle.                                               *)
(***************************************************************************)
\* int(os.getenv("HITL_WEBHOOK_PORT", "5050")) with the variable unset
DefaultPort == 5050

Threads == 1..MaxThreads
StartCallers == {"a", "b"}
\* the port argument: 0 stands for None (and for 0, which is as falsy)
PortArgs == {0, 5051}
Ports == {DefaultPort, 5051}

\* port = port or int(os.getenv("HITL_WEBHOOK_PORT", "5050"))
ResolvePort(port) == IF port = 0 THEN DefaultPort ELSE port

\* alive only once it serves
is_alive_once_listening(t) == thr[t] = "listening"

\* Thread.is_alive(): started and its run() has not ended
is_alive(t) == thr[t] \in {"alive", "listening"}

\* _SERVER_THREAD is not None and _SERVER_THREAD.is_alive()
AlreadyRunning == serverThread # 0 /\ is_alive(serverThread)

\* app.run can bind: nobody listens on the port, here or elsewhere
PortFree(p) ==
    /\ p \notin otherBound
    /\ \A t \in Threads : ~(thr[t] = "listening" /\ tport[t] = p)

Listening == \E t \in Threads : thr[t] = "listening"

NoRequest == [ep |-> <<"", "">>, req |-> Request("malformed", EmptyBody)]

Untouched == [removed |-> FALSE, rec |-> None]
Present(rec) == [removed |-> FALSE, rec |-> Some(rec)]
Removed == [removed |-> TRUE, rec |-> None]

HasKey(data, k) == \E i \in 1..Len(data) : Key(data[i]) = k

UniqueKeys(data) ==
    \A i, j \in 1..Len(data) : Key(data[i]) = Key(data[j]) => i = j

UniqueLists(n) ==
    { d \in UNION { [1..m -> AllRecords] : m \in 0..n } : UniqueKeys(d) }

InitFiles ==
    {FileAbsent, FileMalformed} \cup { FileList(d) : d \in UniqueLists(MaxInitLen) }

LastOf(data) ==
    [k \in KeyUniverse |->
        IF HasKey(data, k)
        THEN Present(data[CHOOSE i \in 1..Len(data) : Key(data[i]) = k])
        ELSE Untouched]

\* nothing is done with the text of the file
JsonIdle ==
    /\ jfile = TextAbsent
    /\ jwritten = None
    /\ jread = None

NotCalled == [done |-> FALSE, val |-> None]
Returned(v) == [done |-> TRUE, val |-> v]

\* no payload is being looked at
PureIdle ==
    /\ pbody = EmptyBody
    /\ pclass = None
    /\ pext = NotCalled

NotRead == [out |-> "none", seen |-> "none", val |-> <<>>]

\* the consumer has not read yet
ReadIdle == rres = NotRead

\* nobody is inside start_webhook_server
StartIdle ==
    /\ spc = [c \in StartCallers |-> "idle"]
    /\ sport = [c \in StartCallers |-> 0]

\* class SupportState(BaseModel): every field defaults to ""
SupportState ==
    [email_raw |-> <<>>, original_sender |-> <<>>, email_subject |-> <<>>,
     draft |-> <<>>, email_content |-> <<>>]

\* flow = SupportEmailFlow(), not kicked off yet
FlowIdle ==
    /\ fpc = "kickoff"
    /\ fstate = SupportState
    /\ fresult = <<>>
    /\ fsteps = <<>>
    /\ ffeedback = None
    /\ fsent = <<>>

AuxIdle == JsonIdle /\ PureIdle /\ ReadIdle /\ StartIdle /\ FlowIdle

InitStore ==
    /\ file \in InitFiles
    /\ hpc = [h \in Handlers |-> "idle"]
    /\ hreq = [h \in Handlers |-> NoRequest]
    /\ hdata = [h \in Handlers |-> <<>>]
    /\ hresp = [h \in Handlers |-> NoResponse]
    /\ cpc = "idle"
    /\ ckey = <<K1, RequestReview>>
    /\ cdata = <<>>
    /\ last = LastOf(_read_store(file))
    /\ nOps = 0

\* the listener is up: start_webhook_server has returned and thread 1 serves
LifeRunning ==
    /\ serverThread = 1
    /\ thr = [t \in Threads |-> IF t = 1 THEN "listening" ELSE "none"]
    /\ tport = [t \in Threads |-> IF t = 1 THEN DefaultPort ELSE 0]
    /\ otherBound = {}
    /\ sres = [c \in StartCallers |-> IF c = "a" THEN "true" ELSE "none"]
    /\ sstarted = [c \in StartCallers |-> IF c = "a" THEN 1 ELSE 0]
    /\ nStart = 1

\* the module has just been imported
LifeInit ==
    /\ serverThread = 0
    /\ thr = [t \in Threads |-> "none"]
    /\ tport = [t \in Threads |-> 0]
    /\ otherBound \in SUBSET Ports
    /\ sres = [c \in StartCallers |-> "none"]
    /\ sstarted = [c \in StartCallers |-> 0]
    /\ nStart = 0

Init == InitStore /\ prev = FileAbsent /\ LifeRunning /\ AuxIdle

InitSeq == InitStore /\ prev = file /\ LifeRunning /\ AuxIdle

InitLife == InitStore /\ file = FileAbsent /\ prev = FileAbsent /\ LifeInit /\ AuxIdle

\* the store and the listener left alone
StoreQuiet == InitStore /\ file = FileAbsent /\ prev = FileAbsent /\ LifeRunning

(***************************************************************************)
(* The request threads of the listener (app.run(threaded=True)): each      *)
(* access to the file is a step of its own.                                *)
(***************************************************************************)
Free(h) == hpc[h] \in {"idle", "done"}

\* a request arrives and gets the first free thread; the handler runs up to
\* its first access to the store
Deliver(h, ep, req) ==
    /\ Free(h)
    /\ \A g \in Handlers : g < h => ~Free(g)
    /\ Listening
    /\ nOps < MaxOps
    /\ nOps' = nOps + 1
    /\ hdata' = [hdata EXCEPT ![h] = <<>>]
    /\ IF GoesToStore(ep, req)
       THEN /\ hpc' = [hpc EXCEPT ![h] = "read"]
            /\ hreq' = [hreq EXCEPT ![h] = [ep |-> ep, req |-> req]]
            /\ hresp' = [hresp EXCEPT ![h] = NoResponse]
       ELSE /\ hpc' = [hpc EXCEPT ![h] = "done"]
            /\ hreq' = [hreq EXCEPT ![h] = NoRequest]
            /\ hresp' = [hresp EXCEPT ![h] = ImmediateResponse(ep, req)]
    /\ UNCHANGED <<file, cpc, ckey, cdata, last, prev, lifeVars, auxVars>>

\* data = _read_store(); data = [...]; data.append(extracted)
TaskRead(h) ==
    /\ hpc[h] = "read"
    /\ hdata' = [hdata EXCEPT ![h] = Upsert(_read_store(file), Extracted(hreq[h].req))]
    /\ hpc' = [hpc EXCEPT ![h] = "open"]
    /\ UNCHANGED <<file, hreq, hresp, cpc, ckey, cdata, last, nOps, prev, lifeVars, auxVars>>

\* _write_store: open(_HITL_STORE, "w")
TaskOpen(h) ==
    /\ hpc[h] = "open"
    /\ file' = OpenW(file)
    /\ hpc' = [hpc EXCEPT ![h] = "dump"]
    /\ UNCHANGED <<hreq, hdata, hresp, cpc, ckey, cdata, last, nOps, prev, lifeVars, auxVars>>

\* _write_store: json.dump and close; then the 200 of task()
TaskDump(h) ==
    /\ hpc[h] = "dump"
    /\ file' \in DumpOutcomes(file, hdata[h])
    /\ hpc' = [hpc EXCEPT ![h] = "done"]
    /\ hresp' = [hresp EXCEPT ![h] = RespStored]
    /\ hdata' = [hdata EXCEPT ![h] = <<>>]
    /\ last' = [last EXCEPT ![Key(Extracted(hreq[h].req))] = Present(Extracted(hreq[h].req))]
    /\ UNCHANGED <<hreq, cpc, ckey, cdata, nOps, prev, lifeVars, auxVars>>

(***************************************************************************)
(* The consumer process: remove_approval(execution_id, task_id).           *)
(***************************************************************************)
RemoveRead(e, t) ==
    /\ cpc \in {"idle", "done"}
    /\ nOps < MaxOps
    /\ nOps' = nOps + 1
    /\ ckey' = <<e, t>>
    /\ cdata' = WithoutKey(_read_store(file), e, t)
    /\ cpc' = "open"
    /\ UNCHANGED <<file, hpc, hreq, hdata, hresp, last, prev, lifeVars, auxVars>>

RemoveOpen ==
    /\ cpc = "open"
    /\ file' = OpenW(file)
    /\ cpc' = "dump"
    /\ UNCHANGED <<hpc, hreq, hdata, hresp, ckey, cdata, last, nOps, prev, lifeVars, auxVars>>

RemoveDump ==
    /\ cpc = "dump"
    /\ file' \in DumpOutcomes(file, cdata)
    /\ cpc' = "done"
    /\ cdata' = <<>>
    /\ last' = [last EXCEPT ![ckey] = Removed]
    /\ UNCHANGED <<hpc, hreq, hdata, hresp, ckey, nOps, prev, lifeVars, auxVars>>

Next ==
    \/ \E h \in Handlers, d \in Deliveries : Deliver(h, d[1], d[2])
    \/ \E h \in Handlers : TaskRead(h)
    \/ \E h \in Handlers : TaskOpen(h)
    \/ \E h \in Handlers : TaskDump(h)
    \/ \E e \in ExecIds, t \in TaskIds : RemoveRead(e, t)
    \/ RemoveOpen
    \/ RemoveDump

Spec == Init /\ [][Next]_vars

(***************************************************************************)
(* The same operations one at a time: each handler and each call runs to   *)
(* its end before the next begins.                                         *)
(***************************************************************************)
\* task(), step(), crew() or health() from the request to the response
SeqDeliver(h, ep, req) ==
    /\ Free(h)
    /\ \A g \in Handlers : g < h => ~Free(g)
    /\ Listening
    /\ nOps < MaxSeqOps
    /\ nOps' = nOps + 1
    /\ prev' = file
    /\ hdata' = [hdata EXCEPT ![h] = <<>>]
    /\ hpc' = [hpc EXCEPT ![h] = "done"]
    /\ IF GoesToStore(ep, req)
       THEN LET data == Upsert(_read_store(file), Extracted(req))
            IN  /\ file' \in DumpOutcomes(OpenW(file), data)
                /\ hreq' = [hreq EXCEPT ![h] = [ep |-> ep, req |-> req]]
                /\ hresp' = [hresp EXCEPT ![h] = RespStored]
                /\ last' = [last EXCEPT ![Key(Extracted(req))] = Present(Extracted(req))]
       ELSE /\ hreq' = [hreq EXCEPT ![h] = NoRequest]
            /\ hresp' = [hresp EXCEPT ![h] = ImmediateResponse(ep, req)]
            /\ UNCHANGED <<file, last>>
    /\ UNCHANGED <<cpc, ckey, cdata, lifeVars, auxVars>>

\* remove_approval(e, t) from the call to the return
SeqRemove(e, t) ==
    /\ nOps < MaxSeqOps
    /\ nOps' = nOps + 1
    /\ prev' = file
    /\ ckey' = <<e, t>>
    /\ cpc' = "done"
    /\ LET data == WithoutKey(_read_store(file), e, t)
       IN  file' \in DumpOutcomes(OpenW(file), data)
    /\ last' = [last EXCEPT ![<<e, t>>] = Removed]
    /\ UNCHANGED <<hpc, hreq, hdata, hresp, cdata, lifeVars, auxVars>>

NextSeq ==
    \/ \E h \in Handlers, d \in Deliveries : SeqDeliver(h, d[1], d[2])
    \/ \E e \in ExecIds, t \in TaskIds : SeqRemove(e, t)

SpecSeq == InitSeq /\ [][NextSeq]_vars

(***************************************************************************)
(* start_webhook_server, its calls one after another, and the threads it   *)
(* starts.                                                                 *)
(***************************************************************************)
FreshThread == CHOOSE t \in Threads : thr[t] = "none" /\ \A u \in Threads : u < t => thr[u] # "none"

\* the whole call; started tells whether Thread.start() succeeds (it raises
\* RuntimeError when the system has no thread to give)
start_webhook_server(c, port, started) ==
    /\ nStart < MaxStarts
    /\ nStart' = nStart + 1
    /\ IF AlreadyRunning
       THEN /\ sres' = [sres EXCEPT ![c] = "true"]
            /\ sstarted' = [sstarted EXCEPT ![c] = 0]
            /\ UNCHANGED <<serverThread, thr, tport>>
       ELSE /\ \E t \in Threads : thr[t] = "none"
            /\ serverThread' = FreshThread
            /\ tport' = [tport EXCEPT ![FreshThread] = ResolvePort(port)]
            /\ IF started
               THEN /\ thr' = [thr EXCEPT ![FreshThread] = "alive"]
                    /\ sres' = [sres EXCEPT ![c] = "true"]
                    /\ sstarted' = [sstarted EXCEPT ![c] = FreshThread]
               ELSE /\ thr' = [thr EXCEPT ![FreshThread] = "unstarted"]
                    /\ sres' = [sres EXCEPT ![c] = "false"]
                    /\ sstarted' = [sstarted EXCEPT ![c] = 0]
    /\ UNCHANGED <<otherBound, storeVars, auxVars>>

\* _run_server: app.run binds the port and serves
ThreadListen(t) ==
    /\ thr[t] = "alive"
    /\ PortFree(tport[t])
    /\ thr' = [thr EXCEPT ![t] = "listening"]
    /\ UNCHANGED <<serverThread, tport, otherBound, sres, sstarted, nStart, storeVars, auxVars>>

\* _run_server: app.run cannot bind the port; the thread ends
ThreadBindFails(t) ==
    /\ thr[t] = "alive"
    /\ ~PortFree(tport[t])
    /\ thr' = [thr EXCEPT ![t] = "exited"]
    /\ UNCHANGED <<serverThread, tport, otherBound, sres, sstarted, nStart, storeVars, auxVars>>

\* another process takes a port nobody holds
OtherProcessBinds(p) ==
    /\ PortFree(p)
    /\ otherBound' = otherBound \cup {p}
    /\ UNCHANGED <<serverThread, thr, tport, sres, sstarted, nStart, storeVars, auxVars>>

\* another process gives its port back
OtherProcessReleases(p) ==
    /\ p \in otherBound
    /\ otherBound' = otherBound \ {p}
    /\ UNCHANGED <<serverThread, thr, tport, sres, sstarted, nStart, storeVars, auxVars>>

NextLife ==
    \/ \E c \in StartCallers, port \in PortArgs, started \in BOOLEAN :
          start_webhook_server(c, port, started)
    \/ \E t \in Threads : ThreadListen(t)
    \/ \E t \in Threads : ThreadBindFails(t)
    \/ \E p \in Ports : OtherProcessBinds(p)
    \/ \E p \in Ports : OtherProcessReleases(p)

SpecLife == InitLife /\ [][NextLife]_vars

(***************************************************************************)
(* The writers with their dumps flushed in parts, and the consumer reading *)
(* at any moment.                                                          *)
(***************************************************************************)
\* the buffer of a dump is flushed before the close: over this writer's own
\* truncation the file holds the start of its text; over what another
\* writer wrote since, a mix that json.load rejects, or that writer's text
\* when the two start alike
FlushOutcomes(f) ==
    IF f.kind \in {"empty", "partial"} THEN {FilePartial} ELSE {FileMalformed, f}

TaskFlush(h) ==
    /\ hpc[h] = "dump"
    /\ file' \in FlushOutcomes(file)
    /\ file' # file
    /\ UNCHANGED <<hpc, hreq, hdata, hresp, cpc, ckey, cdata, last, nOps, prev, lifeVars, auxVars>>

RemoveFlush ==
    /\ cpc = "dump"
    /\ file' \in FlushOutcomes(file)
    /\ file' # file
    /\ UNCHANGED <<hpc, hreq, hdata, hresp, cpc, ckey, cdata, last, nOps, prev, lifeVars, auxVars>>

\* get_pending_approvals() by the consumer, whatever the writers are doing
ReaderGet ==
    /\ rres' = IF _read_store_raises(file) = "none"
               THEN [out |-> "returned", seen |-> file.kind, val |-> get_pending_approvals(file)]
               ELSE [out |-> "raised", seen |-> file.kind, val |-> <<>>]
    /\ UNCHANGED <<storeVars, lifeVars, readRest>>

InitRead ==
    /\ file \in {FileAbsent} \cup { FileList(<<r>>) : r \in AllRecords }
    /\ hpc = [h \in Handlers |-> "idle"]
    /\ hreq = [h \in Handlers |-> NoRequest]
    /\ hdata = [h \in Handlers |-> <<>>]
    /\ hresp = [h \in Handlers |-> NoResponse]
    /\ cpc = "idle"
    /\ ckey = <<K1, RequestReview>>
    /\ cdata = <<>>
    /\ last = LastOf(_read_store(file))
    /\ nOps = 0
    /\ prev = FileAbsent
    /\ LifeRunning
    /\ JsonIdle /\ PureIdle /\ ReadIdle /\ StartIdle /\ FlowIdle

NextRead ==
    \/ \E h \in Handlers, req \in StoringRequests : Deliver(h, TaskEp, req)
    \/ \E h \in Handlers : TaskRead(h)
    \/ \E h \in Handlers : TaskOpen(h)
    \/ \E h \in Handlers : TaskFlush(h)
    \/ \E h \in Handlers : TaskDump(h)
    \/ \E e \in ExecIds : RemoveRead(e, RequestReview)
    \/ RemoveOpen
    \/ RemoveFlush
    \/ RemoveDump
    \/ ReaderGet

SpecRead == InitRead /\ [][NextRead]_vars

(***************************************************************************)
(* The handlers one at a time, over every content the store file can be    *)
(* found with and with the faults the file system can answer with.         *)
(***************************************************************************)
\* where the OSError of _write_store comes from: nowhere, open (the file is
\* left as it was), or json.dump and close (the file is left truncated)
WriteFaults == {"none", "open", "dump"}

FaultFiles ==
    InitFiles \cup {FileEmptyObject, FileScalar, FileNonRecords, FileUndecodable}

InitFault ==
    /\ file \in FaultFiles
    /\ hpc = [h \in Handlers |-> "idle"]
    /\ hreq = [h \in Handlers |-> NoRequest]
    /\ hdata = [h \in Handlers |-> <<>>]
    /\ hresp = [h \in Handlers |-> NoResponse]
    /\ cpc = "idle"
    /\ ckey = <<K1, RequestReview>>
    /\ cdata = <<>>
    /\ last = LastOf(_read_store(file))
    /\ nOps = 0
    /\ prev = file
    /\ LifeRunning
    /\ AuxIdle

\* the exception raised by lines 98-101 of task(); rf tells that open(.., "r")
\* fails with an OSError, which _read_store takes for an empty store
store_raises(f, rf, wf) ==
    CASE ~rf /\ _read_store_raises(f) # "none" -> _read_store_raises(f)
      [] ~rf /\ filter_raises(f) # "none" -> filter_raises(f)
      [] wf # "none" -> "OSError"
      [] OTHER -> "none"

\* except Exception as e: return {"ok": False, "message": str(e)}, 500
task_except(exc) == RespError

\* the file after lines 98-101
store_after(f, rec, rf, wf) ==
    CASE ~rf /\ _read_store_raises(f) # "none" -> {f}
      [] ~rf /\ filter_raises(f) # "none" -> {f}
      [] wf = "open" -> {f}
      [] wf = "dump" -> {FileEmpty, FileMalformed}
      [] OTHER -> {FileList(Upsert(IF rf THEN <<>> ELSE _read_store(f), rec))}

\* one request from its arrival to its response; the request threads take
\* turns so that two consecutive responses stay visible
FaultDeliver(h, ep, req, rf, wf) ==
    /\ h = (nOps % 2) + 1
    /\ Listening
    /\ nOps < MaxFaultOps
    /\ nOps' = nOps + 1
    /\ prev' = file
    /\ hdata' = [hdata EXCEPT ![h] = <<>>]
    /\ hpc' = [hpc EXCEPT ![h] = "done"]
    /\ hreq' = [hreq EXCEPT ![h] = [ep |-> ep, req |-> req]]
    /\ IF GoesToStore(ep, req)
       THEN /\ file' \in store_after(file, Extracted(req), rf, wf)
            /\ IF store_raises(file, rf, wf) = "none"
               THEN /\ hresp' = [hresp EXCEPT ![h] = RespStored]
                    /\ last' = [last EXCEPT ![Key(Extracted(req))] = Present(Extracted(req))]
               ELSE /\ hresp' = [hresp EXCEPT ![h] = task_except(store_raises(file, rf, wf))]
                    /\ UNCHANGED last
       ELSE /\ ~rf /\ wf = "none"
            /\ hresp' = [hresp EXCEPT ![h] = ImmediateResponse(ep, req)]
            /\ UNCHANGED <<file, last>>
    /\ UNCHANGED <<cpc, ckey, cdata, lifeVars, auxVars>>

NextFault ==
    \E h \in Handlers, d \in Deliveries, rf \in BOOLEAN, wf \in WriteFaults :
        FaultDeliver(h, d[1], d[2], rf, wf)

SpecFault == InitFault /\ [][NextFault]_vars

(***************************************************************************)
(* _write_store and _read_store over the text of the file.                 *)
(***************************************************************************)
\* contents with the characters JSON escapes or gives a meaning to
TrickyStrings ==
    { <<"A">>, <<>>, <<"\"">>, <<"a", "\\", "n">>, <<"x", "\n", "]">>,
      <<",", " ", "{">>, <<"n", "u", "l", "l">> }

JsonRecords ==
    { Record(K1, RequestReview, c,
             Body(Some(K1), None, Some(RequestReview), None, Some(c), None)) :
        c \in TrickyStrings }

JsonLists == UNION { [1..m -> JsonRecords] : m \in 0..MaxJsonLen }

\* what the file can be found with: nothing, no character, the start of a
\* dump, a dump followed by the tail of a longer one, a hand-edited empty
\* list, an empty object
InitialTexts ==
    { TextAbsent, TextFile(<<>>), TextFile(<<"[", "\n", " ", " ", "{">>),
      TextFile(<<"[", "]", "\n", "]">>), TextFile(<<"[", " ", "]", "\n">>),
      TextFile(<<"{", "}">>) }

InitJson ==
    /\ StoreQuiet
    /\ PureIdle
    /\ ReadIdle
    /\ StartIdle
    /\ FlowIdle
    /\ jfile \in InitialTexts
    /\ jwritten = None
    /\ jread = None

\* _write_store(data)
JsonWriteAll(data) ==
    /\ jfile' = write_all(ListValue(data))
    /\ jwritten' = Some(ListValue(data))
    /\ jread' = None
    /\ UNCHANGED <<jsonRest, storeVars, lifeVars>>

\* _read_store()
JsonReadAll ==
    /\ jread = None
    /\ jread' = Some(read_all(jfile))
    /\ UNCHANGED <<jfile, jwritten, jsonRest, storeVars, lifeVars>>

\* _write_store(_read_store())
JsonRewrite ==
    /\ jfile' = write_all(read_all(jfile))
    /\ jwritten' = Some(read_all(jfile))
    /\ jread' = None
    /\ UNCHANGED <<jsonRest, storeVars, lifeVars>>

NextJson ==
    \/ \E data \in JsonLists : JsonWriteAll(data)
    \/ JsonReadAll
    \/ JsonRewrite

SpecJson == InitJson /\ [][NextJson]_vars

(***************************************************************************)
(* The classifier and the extraction, each applied to one payload.         *)
(***************************************************************************)
Revie == <<"r", "e", "v", "i", "e">>
ObjectA == Dict(<< <<NameKey, JString(TextA)>> >>)

WideBodies ==
    { Body(kick, exec, name, tid, out, summ) :
        kick \in {None, Some(<<>>), Some(K1)},
        exec \in {None, Some(<<>>), Some(K2)},
        name \in {None, Some(<<>>), Some(ReViEw), Some(SendReply), Some(Revie)},
        tid \in {None, Some(<<>>), Some(RequestReview), Some(SendReply)},
        out \in {None, Some(<<>>), Some(TextA), ObjectA, Dict(<<>>)},
        summ \in {None, Some(TextB), ObjectA, Dict(<<>>)} }

InitPure ==
    /\ StoreQuiet
    /\ JsonIdle
    /\ ReadIdle
    /\ StartIdle
    /\ FlowIdle
    /\ pbody \in WideBodies
    /\ pclass = None
    /\ pext = NotCalled

\* _is_review_task(body)
Classify ==
    /\ pclass = None
    /\ pclass' = Some(_is_review_task(pbody))
    /\ UNCHANGED <<pbody, pext, pureRest, storeVars, lifeVars>>

\* _extract_from_task_payload(body)
Extract ==
    /\ ~pext.done
    /\ pext' = Returned(_extract_from_task_payload(pbody))
    /\ UNCHANGED <<pbody, pclass, pureRest, storeVars, lifeVars>>

NextPure == Classify \/ Extract

SpecPure == InitPure /\ [][NextPure]_vars

(***************************************************************************)
(* start_webhook_server called from several threads of the process: the    *)
(* check of line 127, the assignment of line 131 and the start of line 132 *)
(* are steps of their own.                                                 *)
(***************************************************************************)
InitStart ==
    /\ InitStore /\ file = FileAbsent /\ prev = FileAbsent
    /\ LifeInit
    /\ JsonIdle /\ PureIdle /\ ReadIdle /\ StartIdle /\ FlowIdle

\* lines 127-129: return True if the handle's thread is alive, else go on
\* with the port resolved
StartCheck(c, port) ==
    /\ spc[c] = "idle"
    /\ nStart < MaxStarts
    /\ nStart' = nStart + 1
    /\ sstarted' = [sstarted EXCEPT ![c] = 0]
    /\ IF AlreadyRunning
       THEN /\ sres' = [sres EXCEPT ![c] = "true"]
            /\ UNCHANGED <<spc, sport>>
       ELSE /\ sres' = [sres EXCEPT ![c] = "none"]
            /\ spc' = [spc EXCEPT ![c] = "checked"]
            /\ sport' = [sport EXCEPT ![c] = ResolvePort(port)]
    /\ UNCHANGED <<serverThread, thr, tport, otherBound, storeVars, startRest>>

\* line 131: _SERVER_THREAD = threading.Thread(target=_run_server, ...)
StartAssign(c) ==
    /\ spc[c] = "checked"
    /\ \E t \in Threads : thr[t] = "none"
    /\ serverThread' = FreshThread
    /\ thr' = [thr EXCEPT ![FreshThread] = "unstarted"]
    /\ tport' = [tport EXCEPT ![FreshThread] = sport[c]]
    /\ spc' = [spc EXCEPT ![c] = "assigned"]
    /\ UNCHANGED <<sport, otherBound, sres, sstarted, nStart, storeVars, startRest>>

\* lines 132-135: _SERVER_THREAD.start() on the thread the handle names by
\* now; a thread started before raises RuntimeError, and so does a system
\* with no thread to give (started = FALSE); the except returns False
StartThread(c, started) ==
    /\ spc[c] = "assigned"
    /\ spc' = [spc EXCEPT ![c] = "idle"]
    /\ IF thr[serverThread] = "unstarted" /\ started
       THEN /\ thr' = [thr EXCEPT ![serverThread] = "alive"]
            /\ sres' = [sres EXCEPT ![c] = "true"]
            /\ sstarted' = [sstarted EXCEPT ![c] = serverThread]
       ELSE /\ sres' = [sres EXCEPT ![c] = "false"]
            /\ UNCHANGED <<thr, sstarted>>
    /\ UNCHANGED <<serverThread, tport, sport, otherBound, nStart, storeVars, startRest>>

NextStart ==
    \/ \E c \in StartCallers, port \in PortArgs : StartCheck(c, port)
    \/ \E c \in StartCallers : StartAssign(c)
    \/ \E c \in StartCallers, started \in BOOLEAN : StartThread(c, started)
    \/ \E t \in Threads : ThreadListen(t)
    \/ \E t \in Threads : ThreadBindFails(t)

SpecStart == InitStart /\ [][NextStart]_vars

(***************************************************************************)
(* The support email flow (src/src/supporttickets/main.py).  The methods   *)
(* of SupportEmailFlow run one after another, each when the event it       *)
(* listens to has been emitted; the crews and the human are the inputs.    *)
(***************************************************************************)
\* "No support email to process."
NoEmailMessage ==
    <<"N", "o", " ", "s", "u", "p", "p", "o", "r", "t", " ", "e", "m", "a",
      "i", "l", " ", "t", "o", " ", "p", "r", "o", "c", "e", "s", "s", ".">>

\* "Re: Support"
DefaultSubject ==
    <<"R", "e", ":", " ", "S", "u", "p", "p", "o", "r", "t">>

\* "Cannot send: missing sender or draft."
CannotSend ==
    <<"C", "a", "n", "n", "o", "t", " ", "s", "e", "n", "d", ":", " ", "m",
      "i", "s", "s", "i", "n", "g", " ", "s", "e", "n", "d", "e", "r", " ",
      "o", "r", " ", "d", "r", "a", "f", "t", ".">>

\* "Support reply rejected. No email sent."
RejectedMessage ==
    <<"S", "u", "p", "p", "o", "r", "t", " ", "r", "e", "p", "l", "y", " ",
      "r", "e", "j", "e", "c", "t", "e", "d", ".", " ", "N", "o", " ", "e",
      "m", "a", "i", "l", " ", "s", "e", "n", "t", ".">>

\* "No support email found. Flow complete."
NoEmailFound ==
    <<"N", "o", " ", "s", "u", "p", "p", "o", "r", "t", " ", "e", "m", "a",
      "i", "l", " ", "f", "o", "u", "n", "d", ".", " ", "F", "l", "o", "w",
      " ", "c", "o", "m", "p", "l", "e", "t", "e", ".">>

FromKey == <<"f", "r", "o", "m", ":">>
SubjectKey == <<"s", "u", "b", "j", "e", "c", "t", ":">>

\* what \s matches
SpaceChar(c) == c \in {" ", "\n", "\t", "\r"}

\* str.strip()
Strip(t) ==
    LET solid == { i \in 1..Len(t) : ~SpaceChar(t[i]) }
    IN  IF solid = {} THEN <<>>
        ELSE SubSeq(t, CHOOSE i \in solid : \A j \in solid : i <= j,
                       CHOOSE i \in solid : \A j \in solid : j <= i)

\* re.search(key + r"\s*(.+)", raw, re.IGNORECASE): None, or group 1 of the
\* leftmost match.  \s* takes the white space after the key and gives it
\* back until (.+) begins on a character that is no newline; (.+) runs to
\* the end of that line.
HeaderGroup(raw, key) ==
    LET n == Len(raw)
        low == Lower(raw)
        GroupStart(i) ==
            LET a == i + Len(key)
                solid == { j \in a..n : ~SpaceChar(raw[j]) }
                w == IF solid = {} THEN n
                     ELSE CHOOSE j \in solid : \A k \in solid : j <= k
                begins == { j \in a..w : raw[j] # "\n" }
            IN  IF begins = {} THEN 0
                ELSE CHOOSE j \in begins : \A k \in begins : k <= j
        starts == { i \in 1..(n - Len(key) + 1) :
                      /\ SubSeq(low, i, i + Len(key) - 1) = key
                      /\ GroupStart(i) # 0 }
    IN  IF starts = {} THEN None
        ELSE LET i == CHOOSE j \in starts : \A k \in starts : j <= k
                 b == GroupStart(i)
                 ends == { j \in b..n : raw[j] = "\n" }
                 e == IF ends = {} THEN n
                      ELSE (CHOOSE j \in ends : \A k \in ends : j <= k) - 1
             IN  Some(SubSeq(raw, b, e))

\* the address email.utils.parseaddr finds in  name <addr>  and in a bare
\* addr , the two forms the fetch task is told to answer with
parseaddr(t) ==
    LET opens == { i \in 1..Len(t) : t[i] = "<" }
        o == CHOOSE i \in opens : \A k \in opens : i <= k
        closes == { i \in 1..Len(t) : t[i] = ">" /\ opens # {} /\ i > o }
        blanks == { i \in 1..Len(t) : SpaceChar(t[i]) }
    IN  IF closes # {}
        THEN SubSeq(t, o + 1, (CHOOSE i \in closes : \A k \in closes : i <= k) - 1)
        ELSE IF blanks = {} THEN t
        ELSE SubSeq(t, 1, (CHOOSE i \in blanks : \A k \in blanks : i <= k) - 1)

\* _extract_sender_from_raw(raw)
_extract_sender_from_raw(raw) ==
    LET match == HeaderGroup(raw, FromKey)
    IN  IF match = None THEN <<>>
        ELSE IF parseaddr(Strip(match[1])) # <<>>
             THEN parseaddr(Strip(match[1]))
             ELSE Strip(match[1])

\* raw.lower()[:50]
LowerHead(raw) == SubSeq(Lower(raw), 1, IF Len(raw) < 50 THEN Len(raw) ELSE 50)

\* line 62: the answer of the fetch crew is taken for "no email"
no_email_fetched(raw) ==
    \/ raw = <<>>
    \/ Contains(LowerHead(raw), <<"n", "o", " ">>)
    \/ Contains(LowerHead(raw), <<"e", "r", "r", "o", "r">>)

\* lines 62-72: self.state after fetch_email
fetch_state(state, raw) ==
    IF no_email_fetched(raw)
    THEN [state EXCEPT !.email_raw = <<>>, !.email_content = <<>>]
    ELSE [state EXCEPT
            !.email_raw = raw,
            !.email_content = raw,
            !.original_sender = _extract_sender_from_raw(raw),
            !.email_subject =
                IF HeaderGroup(raw, SubjectKey) = None THEN DefaultSubject
                ELSE Strip(HeaderGroup(raw, SubjectKey)[1])]

\* a router that asks for review whenever there is a draft
route_on_draft_only(state, result) ==
    IF state.draft = <<>> THEN "no_email" ELSE "needs_review"

\* lines 93-95: what check_has_draft returns
route_of(state, result) ==
    IF state.draft = <<>> \/ result = NoEmailMessage
    THEN "no_email"
    ELSE "needs_review"

\* a send_email that never finds anything missing
nothing_missing(state) == FALSE

\* line 110
missing_sender_or_draft(state) ==
    state.original_sender = <<>> \/ state.draft = <<>>

\* emit=["approved", "rejected"]
ReviewOutcomes == {"approved", "rejected"}

\* the methods after which nothing listens
TerminalSteps == {"send_email", "on_rejected", "on_no_email"}

\* what the fetch crew may answer: nothing, a message in place of an email,
\* and emails with and without their FROM and SUBJECT lines
EmailRaws ==
    LET
        RawNothing == <<>>
        RawNoEmails ==
            <<"N", "o", " ", "e", "m", "a", "i", "l", "s", " ", "f", "o", "u", "n",
              "d", ".">>
        RawToolError ==
            <<"T", "o", "o", "l", " ", "e", "r", "r", "o", "r">>
        RawPlain ==
            <<"S", "U", "B", "J", "E", "C", "T", ":", " ", "s", "u", "p", "p", "o",
              "r", "t", "\n", "F", "R", "O", "M", ":", " ", "a", "@", "x", "\n",
              "B", "O", "D", "Y", ":", "\n", "h", "i">>
        RawNamed ==
            <<"S", "u", "b", "j", "e", "c", "t", ":", " ", "s", "u", "p", "p", "o",
              "r", "t", "\n", "F", "r", "o", "m", ":", " ", "A", "n", "n", " ",
              "<", "a", "@", "x", ">", "\n", "B", "o", "d", "y", ":", "\n", "h",
              "i">>
        RawNoFrom ==
            <<"S", "U", "B", "J", "E", "C", "T", ":", " ", "s", "u", "p", "p", "o",
              "r", "t", "\n", "B", "O", "D", "Y", ":", "\n", "h", "i">>
        RawNoSubject ==
            <<"F", "R", "O", "M", ":", " ", "a", "@", "x", "\n", "B", "O", "D",
              "Y", ":", "\n", "h", "i">>
        RawBlankFrom ==
            <<"S", "U", "B", "J", "E", "C", "T", ":", " ", "s", "u", "p", "p", "o",
              "r", "t", "\n", "B", "O", "D", "Y", ":", "\n", "h", "i", "\n", "F",
              "R", "O", "M", ":", " ">>
        RawSubjectNo ==
            <<"S", "U", "B", "J", "E", "C", "T", ":", " ", "s", "u", "p", "p", "o",
              "r", "t", ",", " ", "n", "o", " ", "l", "o", "g", "i", "n", "\n",
              "F", "R", "O", "M", ":", " ", "a", "@", "x", "\n", "B", "O", "D",
              "Y", ":", "\n", "h", "i">>
        RawLate ==
            <<"S", "U", "B", "J", "E", "C", "T", ":", " ", "s", "u", "p", "p", "o",
              "r", "t", " ", "r", "e", "q", "u", "e", "s", "t", "\n", "F", "R",
              "O", "M", ":", " ", "A", "n", "n", " ", "<", "a", "@", "x", ">",
              "\n", "B", "O", "D", "Y", ":", "\n", "t", "h", "e", " ", "a", "p",
              "p", " ", "d", "o", "e", "s", " ", "n", "o", " ", "s", "y", "n", "c">>
    IN
    {RawNothing, RawNoEmails, RawToolError, RawPlain, RawNamed, RawNoFrom,
     RawNoSubject, RawBlankFrom, RawSubjectNo, RawLate}

\* what the support crew may answer
Drafts ==
    LET
        DraftHi ==
            <<"H", "i">>
        DraftDear ==
            <<"D", "e", "a", "r", " ", "A", "n", "n">>
    IN  {<<>>, <<" ">>, NoEmailMessage, DraftHi, DraftDear}

\* what the send crew may answer
SendAnswers == {<<"s", "e", "n", "t">>}

Ran(step) == fsteps' = Append(fsteps, step)

InitFlow ==
    /\ StoreQuiet
    /\ JsonIdle /\ PureIdle /\ ReadIdle /\ StartIdle
    /\ FlowIdle

\* @start() fetch_email
fetch_email(raw) ==
    /\ fpc = "kickoff"
    /\ fstate' = fetch_state(fstate, raw)
    /\ fresult' = raw
    /\ Ran("fetch_email")
    /\ fpc' = "fetch_email"
    /\ UNCHANGED <<ffeedback, fsent, storeVars, lifeVars, flowRest>>

\* @listen(fetch_email) extract_and_search: with no email content the crew
\* is not asked (d is the answer it would give)
extract_and_search(d) ==
    /\ fpc = "fetch_email"
    /\ IF fstate.email_content = <<>>
       THEN /\ d = <<>>
            /\ fresult' = NoEmailMessage
            /\ UNCHANGED fstate
       ELSE /\ fstate' = [fstate EXCEPT !.draft = d]
            /\ fresult' = d
    /\ Ran("extract_and_search")
    /\ fpc' = "extract_and_search"
    /\ UNCHANGED <<ffeedback, fsent, storeVars, lifeVars, flowRest>>

\* @router(extract_and_search) check_has_draft(result): what it returns is
\* the event emitted next
check_has_draft ==
    /\ fpc = "extract_and_search"
    /\ Ran("check_has_draft")
    /\ fpc' = route_of(fstate, fresult)
    /\ UNCHANGED <<fstate, fresult, ffeedback, fsent, storeVars, lifeVars, flowRest>>

\* @listen("needs_review") request_review: returns the draft and pauses
request_review ==
    /\ fpc = "needs_review"
    /\ fresult' = fstate.draft
    /\ Ran("request_review")
    /\ fpc' = "request_review"
    /\ UNCHANGED <<fstate, ffeedback, fsent, storeVars, lifeVars, flowRest>>

\* @human_feedback(emit=[...]): the human's answer, collapsed to an outcome
human_feedback(outcome) ==
    /\ fpc = "request_review"
    /\ ffeedback' = Some(outcome)
    /\ fpc' = outcome
    /\ UNCHANGED <<fstate, fresult, fsteps, fsent, storeVars, lifeVars, flowRest>>

\* @listen("approved") send_email
send_email(answer) ==
    /\ fpc = "approved"
    /\ IF missing_sender_or_draft(fstate)
       THEN /\ fresult' = CannotSend
            /\ UNCHANGED fsent
       ELSE /\ fsent' = Append(fsent,
                    [to |-> fstate.original_sender,
                     subject |-> <<"R", "e", ":", " ">> \o fstate.email_subject,
                     body |-> fstate.draft])
            /\ fresult' = answer
    /\ Ran("send_email")
    /\ fpc' = "end"
    /\ UNCHANGED <<fstate, ffeedback, storeVars, lifeVars, flowRest>>

\* @listen("rejected") on_rejected
on_rejected ==
    /\ fpc = "rejected"
    /\ fresult' = RejectedMessage
    /\ Ran("on_rejected")
    /\ fpc' = "end"
    /\ UNCHANGED <<fstate, ffeedback, fsent, storeVars, lifeVars, flowRest>>

\* @listen("no_email") on_no_email
on_no_email ==
    /\ fpc = "no_email"
    /\ fresult' = NoEmailFound
    /\ Ran("on_no_email")
    /\ fpc' = "end"
    /\ UNCHANGED <<fstate, ffeedback, fsent, storeVars, lifeVars, flowRest>>

NextFlow ==
    \/ \E raw \in EmailRaws : fetch_email(raw)
    \/ \E d \in Drafts : extract_and_search(d)
    \/ check_has_draft
    \/ request_review
    \/ \E outcome \in ReviewOutcomes : human_feedback(outcome)
    \/ \E answer \in SendAnswers : send_email(answer)
    \/ on_rejected
    \/ on_no_email

SpecFlow == InitFlow /\ [][NextFlow]_vars

\* the flow engine runs every method whose event has been emitted; the
\* human's answer is not the engine's to give
NextEngine ==
    \/ \E raw \in EmailRaws : fetch_email(raw)
    \/ \E d \in Drafts : extract_and_search(d)
    \/ check_has_draft
    \/ request_review
    \/ \E answer \in SendAnswers : send_email(answer)
    \/ on_rejected
    \/ on_no_email

SpecFlowLive == InitFlow /\ [][NextFlow]_vars /\ WF_vars(NextEngine)

(***************************************************************************)
(* The request threads and the consumer interleaved as at first, from a    *)
(* store that is absent or empty, over payloads that reach their fields    *)
(* through every fallback.                                                 *)
(***************************************************************************)
VariedBodies ==
    { Body(Some(K1), None, Some(ReViEw), None, Some(TextA), None),
      Body(Some(<<>>), Some(K2), Some(<<>>), Some(RequestReview), None, None),
      Body(None, Some(K2), None, Some(RequestReview), Dict(<<>>), ObjectA),
      Body(Some(K1), None, Some(ReViEw), Some(SendReply), Some(<<>>), Dict(<<>>)),
      Body(Some(K1), None, None, None, Some(TextA), None),
      Body(Some(K1), None, Some(<<>>), Some(<<>>), Some(TextA), None),
      Body(Some(K1), None, Some(SendReply), Some(RequestReview), Some(TextA), None),
      Body(Some(K2), None, Some(Revie), None, Some(TextA), None),
      Body(None, Some(<<>>), Some(ReViEw), None, Some(TextA), None) }

VariedRequests ==
    { Request("object", b) : b \in VariedBodies }
    \cup { Request("malformed", EmptyBody), Request("nonobject", EmptyBody) }

InitVaried ==
    /\ InitStore
    /\ file \in {FileAbsent, FileList(<<>>)}
    /\ prev = FileAbsent
    /\ LifeRunning
    /\ AuxIdle

NextVaried ==
    \/ \E h \in Handlers, req \in VariedRequests : Deliver(h, TaskEp, req)
    \/ \E h \in Handlers : TaskRead(h)
    \/ \E h \in Handlers : TaskOpen(h)
    \/ \E h \in Handlers : TaskDump(h)
    \/ \E e \in ExecIds, t \in TaskIds : RemoveRead(e, t)
    \/ RemoveOpen
    \/ RemoveDump

SpecVaried == InitVaried /\ [][NextVaried]_vars

(***************************************************************************)
(* Properties.                                                             *)
(***************************************************************************)
RecB == Extracted(Request("object", Body(Some(K1), None, Some(RequestReview), None, Some(TextB), None)))
Key1 == <<K1, RequestReview>>
Key2 == <<K2, RequestReview>>

Positions(data, k) == { i \in 1..Len(data) : Key(data[i]) = k }

\* C1: with the operations one at a time, get_pending_approvals() holds
\* exactly one record for each key whose last operation was an upsert, and
\* it is the whole record of that upsert (content and raw); it holds none
\* for a key whose last operation was a removal; a key no operation named
\* has the record the initial store had for it, or none.
C1_SequentialUpsertRemove ==
    LET recs == get_pending_approvals(file)
    IN  \A k \in KeyUniverse :
            IF last[k].rec = None
            THEN Positions(recs, k) = {}
            ELSE /\ Cardinality(Positions(recs, k)) = 1
                 /\ \A i \in Positions(recs, k) : recs[i] = last[k].rec[1]

\* three operations later: a key upserted with new content, a key removed
C1_Witness ==
    /\ nOps >= 3
    /\ last[Key1] = Present(RecB)
    /\ last[Key2] = Removed
    /\ prev.kind = "list" /\ Len(prev.data) = 2
    /\ file = FileList(<<RecB>>)

\* C2: in every reachable state of the interleaved handlers and removals
\* the store holds at most one record per (execution_id, task_id).
C2_AtMostOnePerKey == UniqueKeys(get_pending_approvals(file))

Busy(h) == hpc[h] \in {"read", "open", "dump"}

HKey(h) == Key(Extracted(hreq[h].req))

\* two handlers for the same key have both written, with a removal between
C2_Witness ==
    /\ hresp[1] = RespStored /\ hresp[2] = RespStored
    /\ hpc[1] = "done" /\ hpc[2] = "done"
    /\ HKey(1) = HKey(2) /\ hreq[1] # hreq[2]
    /\ file.kind = "list" /\ HasKey(file.data, HKey(1))

C4_RemovedStaysRemoved ==
    \A k \in KeyUniverse :
        (last[k] = Removed /\ \A h \in Handlers : Busy(h) => HKey(h) # k)
            => ~HasKey(get_pending_approvals(file), k)

ReviewWithId(req) ==
    /\ req.kind = "object"
    /\ _is_review_task(req.obj)
    /\ Truthy(Or2(req.obj.kickoff_id, req.obj.execution_id))

ReviewWithIdRequests == { req \in TaskRequests : ReviewWithId(req) }

ReviewWithoutId(req) ==
    /\ req.kind = "object"
    /\ _is_review_task(req.obj)
    /\ ~Truthy(req.obj.kickoff_id)
    /\ ~Truthy(req.obj.execution_id)

ReviewWithoutIdRequests == { req \in TaskRequests : ReviewWithoutId(req) }

\* C6: a POST /task of a review payload with neither kickoff_id nor
\* execution_id is answered 400 with ok = false and the handler returns
\* without reading or writing the store.
C6_MissingIdRejected ==
    [][ \A h \in Handlers, req \in ReviewWithoutIdRequests :
          Deliver(h, TaskEp, req)
            => /\ hresp'[h].status = 400
               /\ hresp'[h].ok = Some(FALSE)
               /\ hpc'[h] = "done"
               /\ file' = file ]_vars

\* a 400 was answered while the store held a record and another handler
\* was between its read and its write
C6_Witness ==
    /\ hresp[2] = RespMissing
    /\ hpc[1] = "open"
    /\ file.kind = "list" /\ Len(file.data) = 1

\* the requests whose payload, the body that is no object read as the empty
\* payload, does not pass the review predicate
NonReviewRequests ==
    { req \in TaskRequests : ~_is_review_task(get_json_or_empty(req)) }

\* C7: a POST /task whose payload does not pass the review predicate, the
\* body that is no JSON or no JSON object counting as the empty payload, is
\* answered 200 with ok = true and the store is unchanged.
C7_NonReviewAcknowledged ==
    [][ \A h \in Handlers, req \in NonReviewRequests :
          Deliver(h, TaskEp, req)
            => /\ hresp'[h].status = 200
               /\ hresp'[h].ok = Some(TRUE)
               /\ hpc'[h] = "done"
               /\ file' = file ]_vars

OtherDeliveries == { d \in Deliveries : d[1] # TaskEp }

\* C8: POST /step, POST /crew and GET /health answer 200 ({ok: true},
\* {ok: true}, {status: ok}) whatever the body and the store, and return
\* without reading or writing the store.
C8_OtherEndpointsAcknowledge ==
    [][ \A h \in Handlers, d \in OtherDeliveries :
          Deliver(h, d[1], d[2])
            => /\ hresp'[h].status = 200
               /\ d[1] \in {<<"POST", "/step">>, <<"POST", "/crew">>}
                      => hresp'[h] = RespAck
               /\ d[1] = <<"GET", "/health">> => hresp'[h] = RespHealth
               /\ hpc'[h] = "done"
               /\ file' = file ]_vars

\* an acknowledgement and a health answer given while the store holds a
\* record
C8_Witness ==
    /\ hresp[2] = RespAck
    /\ hpc[1] = "dump"
    /\ last[Key1].rec # None

\* C9: a call of start_webhook_server whose listener could not bind its
\* port returned false.
C9_FalseWhenLaunchFails ==
    \A c \in StartCallers :
        (sstarted[c] # 0 /\ thr[sstarted[c]] = "exited") => sres[c] = "false"

\* C10: with the calls one after another, at most one listener thread is
\* alive; a call made while the handle's thread is alive returns true and
\* creates no thread; a thread is created only when the handle is unset or
\* its thread is not alive.
C10_StartIdempotent ==
    /\ [](Cardinality({ t \in Threads : thr[t] \in {"alive", "listening"} }) <= 1)
    /\ [][ \A c \in StartCallers, port \in PortArgs, started \in BOOLEAN :
             (start_webhook_server(c, port, started)
                /\ serverThread # 0 /\ thr[serverThread] \in {"alive", "listening"})
               => /\ sres'[c] = "true"
                  /\ thr' = thr
                  /\ serverThread' = serverThread ]_vars
    /\ [][ (\E t \in Threads : thr[t] = "none" /\ thr'[t] # "none")
             => \/ serverThread = 0
                \/ thr[serverThread] \notin {"alive", "listening"} ]_vars

\* a second call returned true while the first call's thread listens, and
\* that thread is the only one
C10_Witness ==
    /\ sres["a"] = "true" /\ sstarted["a"] = 1
    /\ sres["b"] = "true" /\ sstarted["b"] = 0
    /\ thr[1] = "listening"
    /\ serverThread = 1
    /\ \A t \in Threads : t # 1 => thr[t] = "none"

\* C11 as stated: every POST /task ends with one response of status 200, 400
\* or 500; a failing store write, and a store file holding valid JSON that
\* is not a list of records, end in 500 with ok = false; the listener goes
\* on serving and a GET /health is answered 200.
C11_FaultsAnswered500 ==
    [][ /\ \A h \in Handlers, req \in TaskRequests, rf \in BOOLEAN, wf \in WriteFaults :
              FaultDeliver(h, TaskEp, req, rf, wf)
                => /\ hpc'[h] = "done"
                   /\ hresp'[h].status \in {200, 400, 500}
                   /\ thr' = thr
                   /\ (/\ req \in StoringRequests
                       /\ \/ wf # "none"
                          \/ ~rf /\ file.kind \in {"emptyobject", "scalar", "nonrecords"})
                        => /\ hresp'[h].status = 500
                           /\ hresp'[h].ok = Some(FALSE)
        /\ \A h \in Handlers, req \in OtherRequests :
              FaultDeliver(h, HealthEp, req, FALSE, "none")
                => hresp'[h] = RespHealth /\ thr' = thr ]_vars

\* C11, amended: every POST /task ends with one response of status 200, 400
\* or 500; a failing store write, and a store file whose content makes the
\* read or the filter raise (undecodable bytes, a JSON scalar or null, a
\* container of values that are no objects), end in 500 with ok = false;
\* a store file holding {} or "" is no fault: it is read as the empty store
\* and the delivery is answered 200 and stored; the listener goes on serving
\* and a GET /health is answered 200.
C11_FaultsAnswered500UnlessEmptyValue ==
    [][ /\ \A h \in Handlers, req \in TaskRequests, rf \in BOOLEAN, wf \in WriteFaults :
              FaultDeliver(h, TaskEp, req, rf, wf)
                => /\ hpc'[h] = "done"
                   /\ hresp'[h].status \in {200, 400, 500}
                   /\ thr' = thr
                   /\ (/\ req \in StoringRequests
                       /\ \/ wf # "none"
                          \/ ~rf /\ file.kind \in {"undecodable", "scalar", "nonrecords"})
                        => /\ hresp'[h].status = 500
                           /\ hresp'[h].ok = Some(FALSE)
                   /\ (req \in StoringRequests /\ wf = "none" /\ file.kind = "emptyobject")
                        => /\ hresp'[h].status = 200
                           /\ hresp'[h].ok = Some(TRUE)
                           /\ file' = FileList(<<Extracted(req)>>)
        /\ \A h \in Handlers, req \in OtherRequests :
              FaultDeliver(h, HealthEp, req, FALSE, "none")
                => hresp'[h] = RespHealth /\ thr' = thr ]_vars

\* a delivery met a store file holding a JSON scalar and was answered 500;
\* the GET /health after it was answered 200
C11_Witness ==
    /\ nOps = 2
    /\ hreq[1].req \in StoringRequests /\ hreq[1].ep = TaskEp
    /\ hresp[1] = RespError
    /\ hreq[2].ep = HealthEp
    /\ hresp[2] = RespHealth
    /\ file = FileScalar
    /\ thr[serverThread] = "listening"

\* C12: with the operations one at a time, remove_approval(e, t) on a store
\* with no record of key (e, t), the store file absent or malformed
\* included, leaves get_pending_approvals() as it was (same records, same
\* order); after any remove_approval(e, t) the store has no record of the
\* key, and a second call reads the same as the first.
C12_RemoveAbsentKeyIdempotent ==
    [][ \A e \in ExecIds, t \in TaskIds :
          SeqRemove(e, t)
            => /\ ~HasKey(get_pending_approvals(file), <<e, t>>)
                    => get_pending_approvals(file') = get_pending_approvals(file)
               /\ file.kind \in {"absent", "malformed"}
                    => get_pending_approvals(file') = <<>>
               /\ ~HasKey(get_pending_approvals(file'), <<e, t>>)
               /\ \A f2 \in DumpOutcomes(OpenW(file'), WithoutKey(_read_store(file'), e, t)) :
                      get_pending_approvals(f2) = get_pending_approvals(file') ]_vars

\* the one operation so far removed a key the one-record store did not hold
C12_Witness ==
    /\ nOps = 1
    /\ cpc = "done"
    /\ last[ckey] = Removed
    /\ prev.kind = "list" /\ Len(prev.data) = 1
    /\ prev.data[1].execution_id = ckey[1] /\ prev.data[1].task_id # ckey[2]
    /\ file = prev

\* C13: _read_store() after _write_store(records) returns exactly records,
\* same records in the same order; _write_store(_read_store()) leaves what
\* _read_store() returns as it was, whatever the file held.
C13_RoundTrip ==
    /\ []((jread # None /\ jwritten # None) => jread[1] = jwritten[1])
    /\ [][ JsonRewrite => read_all(jfile') = read_all(jfile) ]_vars

\* two records, one with a quote and one with a newline in its content,
\* were written and read back
C13_Witness ==
    /\ jwritten # None /\ jread # None
    /\ jwritten[1].tag = "list" /\ Len(jwritten[1].v) = 2
    /\ jwritten[1].v[1] = RecordValue(Record(K1, RequestReview, <<"\"">>,
          Body(Some(K1), None, Some(RequestReview), None, Some(<<"\"">>), None)))
    /\ jwritten[1].v[2] = RecordValue(Record(K1, RequestReview, <<"x", "\n", "]">>,
          Body(Some(K1), None, Some(RequestReview), None, Some(<<"x", "\n", "]">>), None)))

\* a field that gives a value: present and not empty
NonEmpty(o) == o # None /\ o # Some(<<>>) /\ o # Dict(<<>>)

\* the name-like field: name, else task_id, else the empty string
NameLike(b) ==
    IF NonEmpty(b.name) THEN b.name[1]
    ELSE IF NonEmpty(b.task_id) THEN b.task_id[1]
    ELSE <<>>

\* the marker, in whatever case, stands at position i of s
MarkerAt(s, i) ==
    \A j \in 1..Len(_REVIEW_TASK_PATTERN) :
        \E k \in 1..26 :
            /\ LowerCase[k] = _REVIEW_TASK_PATTERN[j]
            /\ s[i + j - 1] \in {LowerCase[k], UpperCase[k]}

HasMarker(s) == \E i \in 1..(Len(s) - Len(_REVIEW_TASK_PATTERN) + 1) : MarkerAt(s, i)

\* C14: _is_review_task(payload) is true exactly when the name-like field,
\* the name, else the task_id when the name is absent or empty, else the
\* empty string, contains "review" in whatever case; a payload whose
\* non-empty name lacks the marker is no review task even when its task_id
\* has it.
C14_IsReviewTask ==
    pclass # None
        => /\ pclass[1] = HasMarker(NameLike(pbody))
           /\ (NonEmpty(pbody.name) /\ ~HasMarker(pbody.name[1])) => pclass[1] = FALSE

\* a name without the marker won over a task_id with it
C14_Witness ==
    /\ pclass = Some(FALSE)
    /\ pbody.name = Some(SendReply)
    /\ pbody.task_id = Some(RequestReview)

\* the first of two fields that gives a value, else neither
FirstNonEmpty(a, b) == IF NonEmpty(a) THEN a ELSE IF NonEmpty(b) THEN b ELSE None

C16_ReaderNeverWedged ==
    /\ ENABLED ReaderGet
    /\ _read_store_raises(file) = "none"
    /\ rres.out # "raised"
    /\ rres.seen \in {"absent", "empty", "partial", "malformed"} => rres.val = <<>>

\* the consumer read between the truncation and the dump of a handler that
\* had found a record in the store, and got the empty sequence
C16_Witness ==
    /\ rres = [out |-> "returned", seen |-> "empty", val |-> <<>>]
    /\ file = FileEmpty
    /\ \E h \in Handlers : hpc[h] = "dump" /\ Len(hdata[h]) = 2

\* C17: with the calls of start_webhook_server interleaved, at most one
\* listener thread is started and alive at a time.
C17_StartOnceUnderConcurrency ==
    Cardinality({ t \in Threads : thr[t] \in {"alive", "listening"} }) <= 1

StepRan(step) == \E i \in 1..Len(fsteps) : fsteps[i] = step

LastStep == IF fsteps = <<>> THEN "" ELSE fsteps[Len(fsteps)]

\* C18: in every run of the support email flow, send_email runs only after
\* request_review has run and the human's feedback came out 'approved'; a
\* reply is handed to Gmail only by send_email, at most once, and only with
\* a sender and a draft that are both non-empty; once the feedback is
\* 'rejected', send_email never runs, nothing is sent, and the run ends in
\* on_rejected
C18_SendOnlyAfterApproval ==
    /\ StepRan("send_email") =>
          /\ ffeedback = Some("approved")
          /\ \E i, j \in 1..Len(fsteps) :
                i < j /\ fsteps[i] = "request_review" /\ fsteps[j] = "send_email"
    /\ fsent # <<>> =>
          /\ StepRan("send_email")
          /\ Len(fsent) = 1
          /\ fsent[1].to # <<>> /\ fsent[1].to = fstate.original_sender
          /\ fsent[1].body # <<>> /\ fsent[1].body = fstate.draft
    /\ ffeedback = Some("rejected") =>
          /\ ~StepRan("send_email")
          /\ fsent = <<>>
          /\ fpc \in {"rejected", "end"}
          /\ fpc = "end" => LastStep = "on_rejected"

\* an approved draft has been sent to the sender of the email
C18_Witness ==
    /\ fpc = "end"
    /\ ffeedback = Some("approved")
    /\ LastStep = "send_email"
    /\ Len(fsent) = 1

TerminalsRun == { i \in 1..Len(fsteps) : fsteps[i] \in TerminalSteps }

StoredRecords ==
    LET Items(data) == { data[i] : i \in 1..Len(data) }
    IN  Items(get_pending_approvals(file)) \cup Items(cdata)
            \cup UNION { Items(hdata[h]) : h \in Handlers }

\* C20: from an absent or empty store, whatever deliveries and removals
\* have run and however they interleaved, every record of the store has a
\* non-empty execution_id, a non-empty content and a task_id that contains
\* "review" in whatever case; its task_id is the name, else the task_id, of
\* its payload, one of which is non-empty, never the "request_review"
\* default of the extraction
C20_StoredRecordsWellFormed ==
    \A rec \in StoredRecords :
        /\ rec.execution_id # <<>>
        /\ rec.content # <<>>
        /\ HasMarker(rec.task_id)
        /\ NonEmpty(rec.raw.name) \/ NonEmpty(rec.raw.task_id)
        /\ rec.task_id = NameLike(rec.raw)

\* after a removal the store holds two records that reached their fields
\* through the fallbacks: one with the placeholder for its content, one
\* with the text of an empty object
C20_Witness ==
    LET data == get_pending_approvals(file)
    IN  /\ cpc = "done"
        /\ Len(data) = 2
        /\ \E i \in 1..2 :
              /\ data[i].content = NoOutputPlaceholder
              /\ data[i].execution_id = K2
              /\ data[i].task_id = RequestReview
        /\ \E i \in 1..2 :
              /\ data[i].content = <<"{", "}">>
              /\ data[i].raw.task_id = Some(SendReply)

=============================================================================
